---- MODULE Spec2Model ----
(***************************************************************************)
(* trueBlinders: the frame pipeline of src/trueBlinders.py.                *)
(*                                                                         *)
(* process_video is modelled as a sequential process whose position is pc; *)
(* one action per statement group of the function.  The video source, the  *)
(* video sink and the progress callback are the environment: what they     *)
(* deliver, and whether a call into them raises, is chosen with \E.        *)
(*                                                                         *)
(* A frame is one pixel <<b, g, r>> in the decoder's channel order (the    *)
(* transform is per pixel, so a 1x1 frame carries all of it).  Matrix      *)
(* coefficients are kept in thousandths, pixels are integers 0..255.       *)
(* Float rounding that the numpy build decides is a choice between the     *)
(* values it can produce.                                                  *)
(***************************************************************************)
EXTENDS Integers, Sequences, FiniteSets, TLC

\* ------------------------------------------------------------------ bounds
\* Largest number of frames a source delivers.
MaxFrames == 11
\* Largest frame count a source reports (CAP_PROP_FRAME_COUNT).
MaxTotal == 12
\* Largest number of filter applications the engine is driven through on one
\* pixel.
MaxEngineChain == 3
\* Largest number of frames, and largest reported frame count, of a video the
\* application is run on.
MaxAppFrames == 1
MaxAppTotal == 1
\* Largest number of process_video threads alive besides the one followed.
MaxExtraWorkers == 1

\* -------------------------------------------------------- program constants
\* Coefficients are written with three decimals in the source.
Scale == 1000
\* np.clip(transformed, 0, 255)
ClipLo == 0
ClipHi == 255
\* if frame_num % 10 == 0 or frame_num == total_frames
BatchSize == 10

COLORBLINDNESS_MATRICES ==
    [ Protanopia   |-> << <<567, 433, 0>>, <<558, 442, 0>>, <<0, 242, 758>> >>,
      Deuteranopia |-> << <<625, 375, 0>>, <<700, 300, 0>>, <<0, 300, 700>> >>,
      Tritanopia   |-> << <<950,  50, 0>>, <<0, 433, 567>>, <<0, 475, 525>> >> ]

\* dict.get(filter_type): the matrix, or None for a name that is no key.
None == "None"
MatrixGet(filter_type) ==
    IF filter_type \in DOMAIN COLORBLINDNESS_MATRICES
    THEN COLORBLINDNESS_MATRICES[filter_type]
    ELSE None

\* ------------------------------------------------- Color Transform Engine
\* cv2.cvtColor(frame, COLOR_BGR2RGB) and COLOR_RGB2BGR: swap channels 1 and 3.
\* Variant of BGR2RGB: the frame is taken to be RGB already.
BGR2RGBIdentity(p) == p

BGR2RGB(p) == <<p[3], p[2], p[1]>>
RGB2BGR(p) == <<p[3], p[2], p[1]>>

\* One entry of np.dot(rgb_frame, matrix.T): row . pixel, the exact value in
\* thousandths.
Dot(row, rgb) == row[1] * rgb[1] + row[2] * rgb[2] + row[3] * rgb[3]

\* A coefficient c / 1000 is a binary fraction, and so held exactly by a
\* float64, iff c is a multiple of 125; a product with such a coefficient or
\* with a zero channel is exact.
BinaryFraction == 125
Inexact(row, rgb) == \E j \in 1..3 : row[j] % BinaryFraction # 0 /\ rgb[j] # 0

\* Variant of ClipTrunc: the cast is astype(np.int8), which wraps values
\* above 127.
ClipTruncInt8(s) ==
    LET v == IF s < ClipLo * Scale THEN ClipLo
             ELSE IF s > ClipHi * Scale THEN ClipHi
             ELSE s \div Scale
    IN  IF v > 127 THEN v - 256 ELSE v

\* np.clip(x, 0, 255).astype(np.uint8) of x = s / Scale: clip, then truncate.
ClipTrunc(s) ==
    IF s < ClipLo * Scale THEN ClipLo
    ELSE IF s > ClipHi * Scale THEN ClipHi
    ELSE s \div Scale

\* The uint8 values one channel can take.  The float64 dot product is within
\* rounding error of the exact value s / Scale.  When s / Scale is not a whole
\* number the error cannot change the truncation.  When it is a whole number
\* k > 0 computed from inexact products, the float lands on k or next to it,
\* depending on the summation the numpy build uses: the truncation is k or
\* k - 1.
ChannelOutcomes(row, rgb) ==
    LET s == Dot(row, rgb)
    IN  IF s % Scale = 0 /\ s > ClipLo * Scale /\ s <= ClipHi * Scale
           /\ Inexact(row, rgb)
        THEN {ClipTrunc(s) - 1, ClipTrunc(s)}
        ELSE {ClipTrunc(s)}

\* The frames apply_colorblind_filter(frame, matrix) can return.
apply_colorblind_filter(frame, matrix) ==
    LET rgb_frame == BGR2RGB(frame)
    IN  { RGB2BGR(<<r, g, b>>) :
            r \in ChannelOutcomes(matrix[1], rgb_frame),
            g \in ChannelOutcomes(matrix[2], rgb_frame),
            b \in ChannelOutcomes(matrix[3], rgb_frame) }

\* Variant of ApplyChain: the chain is walked from its last entry to its first.
RECURSIVE ApplyChainReversed(_, _)
ApplyChainReversed(frame, ms) ==
    IF ms = <<>> THEN {frame}
    ELSE UNION { ApplyChainReversed(f, SubSeq(ms, 1, Len(ms) - 1)) :
                    f \in apply_colorblind_filter(frame, ms[Len(ms)]) }

\* filtered_frame = frame; for matrix in matrices: filtered_frame = apply(...)
\* The frames the loop over the chain can end with.
RECURSIVE ApplyChain(_, _)
ApplyChain(frame, ms) ==
    IF ms = <<>> THEN {frame}
    ELSE UNION { ApplyChain(f, Tail(ms)) :
                    f \in apply_colorblind_filter(frame, Head(ms)) }

\* ------------------------------------------------------------ environment
\* Frames a source can carry; consecutive frames of a video differ, so a
\* reordering or a dropped frame shows in the output.
Palette == << <<255, 0, 0>>, <<255, 128, 0>>, <<0, 0, 0>>, <<25, 50, 75>> >>
Video(n) == [i \in 1..n |-> Palette[((i - 1) % Len(Palette)) + 1]]

\* Filter chains a caller passes to process_video: empty, 1..3 catalog names,
\* 4 names, and chains with a name that is not in the catalog.
Chains ==
    { <<>>,
      <<"Protanopia">>,
      <<"Deuteranopia", "Tritanopia">>,
      <<"Tritanopia", "Deuteranopia">>,
      <<"Protanopia", "Deuteranopia", "Tritanopia">>,
      <<"Protanopia", "Protanopia", "Deuteranopia", "Tritanopia">>,
      <<"Achromatopsia">>,
      <<"Protanopia", "Achromatopsia">> }

\* --------------------------------------------------------------- progress
\* A progress value is the float (frame_num / total_frames) * 100, kept as
\* the exact fraction num / den with den > 0.
Frac(n, d) == [num |-> n, den |-> d]
Hundred == Frac(100, 1)
Leq(a, b) == a.num * b.den <= b.num * a.den
InRange(a) == a.num >= 0 /\ a.num <= 100 * a.den
IsHundred(a) == a.num = 100 * a.den

VARIABLES
    pc,              \* position in process_video
    env,             \* what the source and the sink will do for this job
    filters,         \* argument: list of filter names
    cap,             \* cv2.VideoCapture: "none", "unopened", "open", "released"
    out,             \* cv2.VideoWriter:  "none", "unopened", "open", "released"
    total_frames,
    matrices,
    cap_pos,         \* number of frames cap.read() has delivered
    frame,
    filtered_frame,
    frame_num,
    written,         \* frames passed to out.write, in call order
    sink_frames,     \* frames the output file holds
    progress_calls,  \* values passed to progress_callback, in call order
    exc,             \* the exception raised inside the try block, or "none"
    outcome,         \* the message box shown: the job's terminal report
    controls,        \* state of each button, entry and menu, in child order
    enable_pos,      \* controls the enable_ui call of the job has configured
                     \* (NumControls: all of them, the label call is next)
    ui_message,      \* title of the warning box start_processing has up, or "none"
    input_path,      \* the StringVars behind the entries and the menus
    output_path,
    menus,
    others           \* process_video threads alive besides the one followed:
                     \* how many have configured c controls in enable_ui

vars == << pc, env, filters, cap, out, total_frames, matrices, cap_pos, frame,
           filtered_frame, frame_num, written, sink_frames, progress_calls,
           exc, outcome, controls, enable_pos, ui_message, input_path,
           output_path, menus, others >>

\* The fields of the application object and its widgets.
app_vars == << controls, enable_pos, ui_message, input_path, output_path,
               menus, others >>

\* The children of the root window that disable_ui and enable_ui configure,
\* in the order create_widgets makes them: input entry, input Browse, the
\* three filter menus, output entry, output Browse, Apply Filters.
NumControls == 8
InputEntry == 1
InputBrowse == 2
FirstMenu == 3
OutputEntry == 6
OutputBrowse == 7
ApplyButton == 8
AllControls(state) == [k \in 1..NumControls |-> state]

NoFrame == <<>>

Init ==
    /\ pc = "idle"
    /\ env = [openable |-> FALSE, frames |-> <<>>, frame_count |-> 0,
              sink_creatable |-> FALSE]
    /\ filters = <<>>
    /\ cap = "none"
    /\ out = "none"
    /\ total_frames = 0
    /\ matrices = <<>>
    /\ cap_pos = 0
    /\ frame = NoFrame
    /\ filtered_frame = NoFrame
    /\ frame_num = 0
    /\ written = <<>>
    /\ sink_frames = <<>>
    /\ progress_calls = <<>>
    /\ exc = "none"
    /\ outcome = "none"
    /\ controls = AllControls("normal")
    /\ enable_pos = 0
    /\ ui_message = "none"
    /\ input_path = ""
    /\ output_path = <<>>
    /\ menus = << "Protanopia", "None", "None" >>
    /\ others = [c \in 0..NumControls |-> 0]

\* release() closes an open handle and is a no-op on any other.
Release(h) == IF h = "open" THEN "released" ELSE h

\* process_video(input_path, output_path, filters, progress_callback) is
\* called: the paths decide what the source and the sink will do.
Call ==
    /\ pc = "idle"
    /\ \E openable \in BOOLEAN, n \in 0..MaxFrames, count \in 0..MaxTotal,
          creatable \in BOOLEAN, chain \in Chains :
          /\ env' = [openable |-> openable, frames |-> Video(n),
                     frame_count |-> count, sink_creatable |-> creatable]
          /\ filters' = chain
    /\ pc' = "open_source"
    /\ UNCHANGED << cap, out, total_frames, matrices, cap_pos, frame,
                    filtered_frame, frame_num, written, sink_frames,
                    progress_calls, exc, outcome >>
    /\ UNCHANGED app_vars

\* cap = cv2.VideoCapture(input_path); if not cap.isOpened(): showerror; return
\* then fps, width, height, total_frames are read from cap.
OpenSource ==
    /\ pc = "open_source"
    /\ IF env.openable
       THEN /\ cap' = "open"
            /\ total_frames' = env.frame_count
            /\ pc' = "create_sink"
            /\ UNCHANGED outcome
       ELSE /\ cap' = "unopened"
            /\ outcome' = "cannot_open"
            /\ pc' = "done"
            /\ UNCHANGED total_frames
    /\ UNCHANGED << env, filters, out, matrices, cap_pos, frame, filtered_frame,
                    frame_num, written, sink_frames, progress_calls, exc >>
    /\ UNCHANGED app_vars

\* out = cv2.VideoWriter(output_path, fourcc, fps, (width, height)).  The
\* constructor does not raise when the file cannot be created: it returns a
\* writer that is not opened, and the code never asks out.isOpened().
CreateSink ==
    /\ pc = "create_sink"
    /\ out' = IF env.sink_creatable THEN "open" ELSE "unopened"
    /\ pc' = "resolve"
    /\ UNCHANGED << env, filters, cap, total_frames, matrices, cap_pos, frame,
                    filtered_frame, frame_num, written, sink_frames,
                    progress_calls, exc, outcome >>
    /\ UNCHANGED app_vars

\* Index of the first name of the chain the catalog does not have, 0 if none.
FirstUnknown(chain) ==
    IF \E i \in 1..Len(chain) : MatrixGet(chain[i]) = None
    THEN CHOOSE i \in 1..Len(chain) :
             /\ MatrixGet(chain[i]) = None
             /\ \A j \in 1..(i - 1) : MatrixGet(chain[j]) # None
    ELSE 0

\* matrices = []
\* for filter_type in filters: matrix = MATRICES.get(filter_type);
\*   if matrix is None: showerror(...) ...
\*   matrices.append(matrix)
\* frame_num = 0
\* At an unknown name the box is shown with the source and the sink open and
\* the matrices of the names before it in the list.
ResolveFilters ==
    /\ pc = "resolve"
    /\ IF FirstUnknown(filters) # 0
       THEN /\ matrices' = [i \in 1..(FirstUnknown(filters) - 1) |->
                                MatrixGet(filters[i])]
            /\ outcome' = "unknown_filter"
            /\ pc' = "release_unknown"
            /\ UNCHANGED frame_num
       ELSE /\ matrices' = [i \in 1..Len(filters) |-> MatrixGet(filters[i])]
            /\ frame_num' = 0
            /\ pc' = "read"
            /\ UNCHANGED outcome
    /\ UNCHANGED << env, filters, cap, out, total_frames, cap_pos, frame,
                    filtered_frame, written, sink_frames, progress_calls, exc >>
    /\ UNCHANGED app_vars

\* ... cap.release(); out.release(); return   (after the box is dismissed)
ReleaseUnknown ==
    /\ pc = "release_unknown"
    /\ cap' = Release(cap)
    /\ out' = Release(out)
    /\ pc' = "done"
    /\ UNCHANGED << env, filters, total_frames, matrices, cap_pos, frame,
                    filtered_frame, frame_num, written, sink_frames,
                    progress_calls, exc, outcome >>
    /\ UNCHANGED app_vars

\* An exception raised inside the try block transfers control to the handler.
Raise(kind) ==
    /\ exc' = kind
    /\ pc' = "except"

\* Variant of ReadFrame: the loop calls cap.read() twice per iteration, so
\* every other frame is dropped.
ReadFrameTwice ==
    /\ pc = "read"
    /\ IF cap_pos + 1 < Len(env.frames)
       THEN /\ frame' = env.frames[cap_pos + 2]
            /\ cap_pos' = cap_pos + 2
            /\ pc' = "transform"
       ELSE /\ frame' = NoFrame
            /\ pc' = "finalize"
            /\ UNCHANGED cap_pos
    /\ UNCHANGED << env, filters, cap, out, total_frames, matrices,
                    filtered_frame, frame_num, written, sink_frames,
                    progress_calls, exc, outcome >>
    /\ UNCHANGED app_vars

\* ret, frame = cap.read(); if not ret: break
\* At the end of the source the read gives (False, None).
ReadFrame ==
    /\ pc = "read"
    /\ IF cap_pos < Len(env.frames)
       THEN /\ frame' = env.frames[cap_pos + 1]
            /\ cap_pos' = cap_pos + 1
            /\ pc' = "transform"
       ELSE /\ frame' = NoFrame
            /\ pc' = "finalize"
            /\ UNCHANGED cap_pos
    /\ UNCHANGED << env, filters, cap, out, total_frames, matrices,
                    filtered_frame, frame_num, written, sink_frames,
                    progress_calls, exc, outcome >>
    /\ UNCHANGED app_vars

\* cap.read() raises (decoder error).
ReadRaises ==
    /\ pc = "read"
    /\ Raise("read")
    /\ UNCHANGED << env, filters, cap, out, total_frames, matrices, cap_pos,
                    frame, filtered_frame, frame_num, written, sink_frames,
                    progress_calls, outcome >>
    /\ UNCHANGED app_vars

\* filtered_frame = frame; for matrix in matrices: filtered_frame = apply(...)
ApplyFilters ==
    /\ pc = "transform"
    /\ filtered_frame' \in ApplyChain(frame, matrices)
    /\ pc' = "write"
    /\ UNCHANGED << env, filters, cap, out, total_frames, matrices, cap_pos,
                    frame, frame_num, written, sink_frames, progress_calls,
                    exc, outcome >>
    /\ UNCHANGED app_vars

\* apply_colorblind_filter raises (cv2.error on a frame it cannot convert)
\* in one of its calls: filtered_frame is the frame after the filters before.
ApplyRaises ==
    /\ pc = "transform"
    /\ \E k \in 1..Len(matrices) :
          filtered_frame' \in ApplyChain(frame, SubSeq(matrices, 1, k - 1))
    /\ Raise("transform")
    /\ UNCHANGED << env, filters, cap, out, total_frames, matrices, cap_pos,
                    frame, frame_num, written, sink_frames,
                    progress_calls, outcome >>
    /\ UNCHANGED app_vars

\* out.write(filtered_frame): a writer that is not opened drops the frame.
WriteFrame ==
    /\ pc = "write"
    /\ written' = Append(written, filtered_frame)
    /\ sink_frames' = IF out = "open" THEN Append(sink_frames, filtered_frame)
                      ELSE sink_frames
    /\ pc' = "progress"
    /\ UNCHANGED << env, filters, cap, out, total_frames, matrices, cap_pos,
                    frame, filtered_frame, frame_num, progress_calls, exc,
                    outcome >>
    /\ UNCHANGED app_vars

\* out.write raises.
WriteRaises ==
    /\ pc = "write"
    /\ Raise("write")
    /\ UNCHANGED << env, filters, cap, out, total_frames, matrices, cap_pos,
                    frame, filtered_frame, frame_num, written, sink_frames,
                    progress_calls, outcome >>
    /\ UNCHANGED app_vars

\* if frame_num % 10 == 0 or frame_num == total_frames
\* Variant of ShouldReport: every frame is reported.
ShouldReportAlways(n, total) == TRUE

ShouldReport(n, total) == n % BatchSize = 0 \/ n = total

\* ColorblindFilterApp.update_progress(progress), the progress_callback of
\* every job: redraw the bar, then if progress >= 100: enable_ui().  The value
\* is where the worker goes on after a call that does not raise: into
\* enable_ui, or back to its caller.
update_progress(progress, enabling, after) ==
    IF progress.num >= 100 * progress.den THEN enabling ELSE after

\* frame_num += 1
\* if frame_num % 10 == 0 or frame_num == total_frames:
\*     progress = (frame_num / total_frames) * 100
\*     progress_callback(progress)
\* The division raises ZeroDivisionError when total_frames is 0; the callback
\* may raise after it has received the value.
ReportProgress ==
    /\ pc = "progress"
    /\ frame_num' = frame_num + 1
    /\ IF ~ShouldReport(frame_num + 1, total_frames)
       THEN /\ pc' = "read"
            /\ UNCHANGED << progress_calls, exc >>
       ELSE IF total_frames = 0
       THEN /\ Raise("ZeroDivisionError")
            /\ UNCHANGED progress_calls
       ELSE /\ progress_calls' =
                   Append(progress_calls, Frac((frame_num + 1) * 100, total_frames))
            /\ \/ /\ pc' = update_progress(Frac((frame_num + 1) * 100, total_frames),
                                           "loop_enable", "read")
                  /\ UNCHANGED exc
               \/ Raise("callback")
    /\ UNCHANGED << env, filters, cap, out, total_frames, matrices, cap_pos,
                    frame, filtered_frame, written, sink_frames, outcome >>
    /\ UNCHANGED app_vars

\* Variant of Finalize: the final progress_callback(100) is left out.
FinalizeNoFinalCallback ==
    /\ pc = "finalize"
    /\ cap' = Release(cap)
    /\ out' = Release(out)
    /\ pc' = "success"
    /\ UNCHANGED << env, filters, total_frames, matrices, cap_pos, frame,
                    filtered_frame, frame_num, written, sink_frames,
                    progress_calls, exc, outcome >>
    /\ UNCHANGED app_vars

\* Variant of Finalize: the handles are not released before the final
\* notification and the report.
FinalizeNoRelease ==
    /\ pc = "finalize"
    /\ progress_calls' = Append(progress_calls, Hundred)
    /\ \/ /\ pc' = update_progress(Hundred, "final_enable", "success")
          /\ UNCHANGED exc
       \/ Raise("callback")
    /\ UNCHANGED << env, filters, cap, out, total_frames, matrices, cap_pos,
                    frame, filtered_frame, frame_num, written, sink_frames,
                    outcome >>
    /\ UNCHANGED app_vars

\* cap.release(); out.release(); progress_callback(100)
Finalize ==
    /\ pc = "finalize"
    /\ cap' = Release(cap)
    /\ out' = Release(out)
    /\ progress_calls' = Append(progress_calls, Hundred)
    /\ \/ /\ pc' = update_progress(Hundred, "final_enable", "success")
          /\ UNCHANGED exc
       \/ Raise("callback")
    /\ UNCHANGED << env, filters, total_frames, matrices, cap_pos, frame,
                    filtered_frame, frame_num, written, sink_frames, outcome >>
    /\ UNCHANGED app_vars

\* enable_ui, called by update_progress in the worker thread:
\*   for child in self.root.winfo_children(): ... child.configure(state='normal')
\*   self.progress_label.config(text="Progress: 100%")
\* One step per widget call; the GUI thread runs between two of them.  After
\* the label call enable_ui and update_progress return.
enable_ui ==
    /\ pc \in {"loop_enable", "final_enable"}
    /\ IF enable_pos < NumControls
       THEN /\ controls' = [controls EXCEPT ![enable_pos + 1] = "normal"]
            /\ enable_pos' = enable_pos + 1
            /\ UNCHANGED pc
       ELSE /\ enable_pos' = 0
            /\ pc' = IF pc = "loop_enable" THEN "read" ELSE "success"
            /\ UNCHANGED controls
    /\ UNCHANGED << env, filters, cap, out, total_frames, matrices, cap_pos,
                    frame, filtered_frame, frame_num, written, sink_frames,
                    progress_calls, exc, outcome, ui_message, input_path,
                    output_path, menus, others >>

\* The next widget call of enable_ui raises (TclError once the window is
\* gone): the configure of a control, or the label call after the last one.
\* The exception leaves update_progress and reaches the handler of
\* process_video.
EnableRaises ==
    /\ pc \in {"loop_enable", "final_enable"}
    /\ enable_pos' = 0
    /\ Raise("callback")
    /\ UNCHANGED << env, filters, cap, out, total_frames, matrices, cap_pos,
                    frame, filtered_frame, frame_num, written, sink_frames,
                    progress_calls, outcome, controls, ui_message, input_path,
                    output_path, menus, others >>

\* messagebox.showinfo("Success", ...)
ShowSuccess ==
    /\ pc = "success"
    /\ outcome' = "success"
    /\ pc' = "done"
    /\ UNCHANGED << env, filters, cap, out, total_frames, matrices, cap_pos,
                    frame, filtered_frame, frame_num, written, sink_frames,
                    progress_calls, exc >>
    /\ UNCHANGED app_vars

\* Variant of Except: the handler sits inside the loop and goes on with the
\* next frame.
ExceptRetry ==
    /\ pc = "except"
    /\ pc' = "read"
    /\ UNCHANGED << env, filters, cap, out, total_frames, matrices, cap_pos,
                    frame, filtered_frame, frame_num, written, sink_frames,
                    progress_calls, exc, outcome >>
    /\ UNCHANGED app_vars

\* except Exception as e: showerror("An error occurred")
Except ==
    /\ pc = "except"
    /\ outcome' = "exception"
    /\ pc' = "done"
    /\ UNCHANGED << env, filters, cap, out, total_frames, matrices, cap_pos,
                    frame, filtered_frame, frame_num, written, sink_frames,
                    progress_calls, exc >>
    /\ UNCHANGED app_vars

Next ==
    \/ Call
    \/ OpenSource
    \/ CreateSink
    \/ ResolveFilters
    \/ ReleaseUnknown
    \/ ReadFrame
    \/ ReadRaises
    \/ ApplyFilters
    \/ ApplyRaises
    \/ WriteFrame
    \/ WriteRaises
    \/ ReportProgress
    \/ Finalize
    \/ enable_ui
    \/ EnableRaises
    \/ ShowSuccess
    \/ Except

Spec == Init /\ [][Next]_vars

\* ------------------------------------------ the engine on its own
\* apply_colorblind_filter as a pure function: a pixel is drawn from the
\* sample values, then filters of the catalog are applied to it one after
\* another, each to the result of the one before.
ChannelSamples == {0, 1, 128, 254, 255}
CatalogNames == DOMAIN COLORBLINDNESS_MATRICES

InitEngine ==
    /\ pc = "engine"
    /\ env = [openable |-> FALSE, frames |-> <<>>, frame_count |-> 0,
              sink_creatable |-> FALSE]
    /\ filters = <<>>
    /\ cap = "none"
    /\ out = "none"
    /\ total_frames = 0
    /\ matrices = <<>>
    /\ cap_pos = 0
    /\ frame \in { <<b, g, r>> : b \in ChannelSamples, g \in ChannelSamples,
                                 r \in ChannelSamples }
    /\ filtered_frame = frame
    /\ frame_num = 0
    /\ written = <<>>
    /\ sink_frames = <<>>
    /\ progress_calls = <<>>
    /\ exc = "none"
    /\ outcome = "none"
    /\ controls = AllControls("normal")
    /\ enable_pos = 0
    /\ ui_message = "none"
    /\ input_path = ""
    /\ output_path = <<>>
    /\ menus = << "Protanopia", "None", "None" >>
    /\ others = [c \in 0..NumControls |-> 0]

\* filtered_frame = apply_colorblind_filter(filtered_frame, matrix)
EngineApply ==
    /\ pc = "engine"
    /\ Len(filters) < MaxEngineChain
    /\ \E name \in CatalogNames :
          /\ filtered_frame' \in
                 apply_colorblind_filter(filtered_frame, MatrixGet(name))
          /\ filters' = Append(filters, name)
          /\ matrices' = Append(matrices, MatrixGet(name))
    /\ UNCHANGED << pc, env, cap, out, total_frames, cap_pos, frame, frame_num,
                    written, sink_frames, progress_calls, exc, outcome >>
    /\ UNCHANGED app_vars

NextEngine == EngineApply

SpecEngine == InitEngine /\ [][NextEngine]_vars

\* ------------------------------------------------------ the application
\* Paths are sequences of characters where the code looks into them
\* (output_file.lower().endswith('.mp4')) and names where it only hands them
\* to the file system (os.path.isfile).
UpperLetters == << "A", "B", "C", "D", "E", "F", "G", "H", "I", "J", "K", "L", "M",
                   "N", "O", "P", "Q", "R", "S", "T", "U", "V", "W", "X", "Y", "Z" >>
LowerLetters == << "a", "b", "c", "d", "e", "f", "g", "h", "i", "j", "k", "l", "m",
                   "n", "o", "p", "q", "r", "s", "t", "u", "v", "w", "x", "y", "z" >>
\* str.lower()
LowerChar(c) ==
    IF \E k \in 1..Len(UpperLetters) : UpperLetters[k] = c
    THEN LowerLetters[CHOOSE k \in 1..Len(UpperLetters) : UpperLetters[k] = c]
    ELSE c
Lower(str) == [k \in 1..Len(str) |-> LowerChar(str[k])]
\* str.endswith(suffix)
EndsWith(str, suffix) ==
    /\ Len(str) >= Len(suffix)
    /\ SubSeq(str, Len(str) - Len(suffix) + 1, Len(str)) = suffix
DotMp4 == << ".", "m", "p", "4" >>

\* What the user can have in the two entries and the three menus.
InputPaths == {"", "video.mp4", "missing.mp4"}
ExistingFiles == {"video.mp4"}
\* os.path.isfile(input_file)
isfile(path) == path \in ExistingFiles
OutputPaths ==
    { <<>>,
      << "o", ".", "M", "P", "4" >>,
      << "m", "p", "4" >> }
\* filter_options = ["Protanopia", "Deuteranopia", "Tritanopia", "None"]
FilterOptions == {"Protanopia", "Deuteranopia", "Tritanopia", "None"}
\* The settings of the three menus the user is taken to make: nothing chosen,
\* the one the application starts with, two filters with a gap between.
MenuChoices ==
    { choice \in { << "None", "None", "None" >>,
                   << "Protanopia", "None", "None" >>,
                   << "Deuteranopia", "None", "Tritanopia" >> } :
          \A k \in 1..3 : choice[k] \in FilterOptions }

\* filters = []; if self.filterN.get() != "None": filters.append(...)
CollectFilters(f1, f2, f3) == SelectSeq(<<f1, f2, f3>>, LAMBDA f : f # "None")

\* A process_video thread is between its start and its return.
WorkerAlive == pc \notin {"idle", "done", "engine"}

\* Number of process_video threads alive besides the one followed.
RECURSIVE CountFrom(_, _)
CountFrom(counts, c) ==
    IF c > NumControls THEN 0 ELSE counts[c] + CountFrom(counts, c + 1)
extra == CountFrom(others, 0)

\* messagebox.showwarning / showerror(title, ...): the box is up and holds
\* the application's input until the user dismisses it.
Reject(title) ==
    /\ ui_message' = title
    /\ UNCHANGED << pc, env, filters, cap, out, total_frames, matrices, cap_pos,
                    frame, filtered_frame, frame_num, written, sink_frames,
                    progress_calls, exc, outcome, controls, enable_pos,
                    input_path, output_path, menus, others >>

\* disable_ui: every button, entry and menu is configured 'disabled'.  It runs
\* inside the button's command, in the GUI thread, in one piece.
disable_ui == AllControls("disabled")

\* self.disable_ui(); threading.Thread(target=process_video, args=(input_file,
\* output_file, filters, self.update_progress)).start()
\* The input file may or may not be a video cv2 can open; the output file is
\* taken to be in a directory the application can write to.
\* The thread is the one followed when that one is not alive; a thread started
\* while it is alive joins others, outside its enable_ui, as long as others
\* has room for it.
StartWorker(chain) ==
    /\ controls' = disable_ui
    /\ UNCHANGED ui_message
    /\ UNCHANGED << input_path, output_path, menus >>
    /\ IF WorkerAlive
       THEN /\ extra < MaxExtraWorkers
            /\ others' = [others EXCEPT ![0] = @ + 1]
            /\ UNCHANGED << pc, env, filters, cap, out, total_frames, matrices,
                            cap_pos, frame, filtered_frame, frame_num, written,
                            sink_frames, progress_calls, exc, outcome,
                            enable_pos >>
       ELSE /\ \E openable \in BOOLEAN, n \in 0..MaxAppFrames,
                  count \in 0..MaxAppTotal :
                  env' = [openable |-> openable, frames |-> Video(n),
                          frame_count |-> count, sink_creatable |-> TRUE]
            /\ filters' = chain
            /\ pc' = "open_source"
            /\ cap' = "none"
            /\ out' = "none"
            /\ total_frames' = 0
            /\ matrices' = <<>>
            /\ cap_pos' = 0
            /\ frame' = NoFrame
            /\ filtered_frame' = NoFrame
            /\ frame_num' = 0
            /\ written' = <<>>
            /\ sink_frames' = <<>>
            /\ progress_calls' = <<>>
            /\ exc' = "none"
            /\ outcome' = "none"
            /\ enable_pos' = 0
            /\ UNCHANGED others

\* Variant of Validate: the extension of the output path is not looked at.
ValidateNoExtension(in_file, out_file, chain) ==
    IF in_file = "" THEN "Input Required"
    ELSE IF out_file = <<>> THEN "Output Required"
    ELSE IF ~isfile(in_file) THEN "File Not Found"
    ELSE IF chain = <<>> THEN "No Filters Selected"
    ELSE IF Len(chain) > 3 THEN "Too Many Filters"
    ELSE "none"

\* The checks of start_processing in the order the code makes them: the title
\* of the box shown for the first that fails, "none" when all pass.
Validate(in_file, out_file, chain) ==
    IF in_file = "" THEN "Input Required"
    ELSE IF out_file = <<>> THEN "Output Required"
    ELSE IF ~isfile(in_file) THEN "File Not Found"
    ELSE IF ~EndsWith(Lower(out_file), DotMp4) THEN "Invalid Output"
    ELSE IF chain = <<>> THEN "No Filters Selected"
    ELSE IF Len(chain) > 3 THEN "Too Many Filters"
    ELSE "none"

\* The command of the "Apply Filters" button; a disabled button does not call
\* it.  It reads the entries and the menus.
start_processing ==
    /\ ui_message = "none"
    /\ controls[ApplyButton] = "normal"
    /\ LET chain == CollectFilters(menus[1], menus[2], menus[3])
           title == Validate(input_path, output_path, chain)
       IN  IF title # "none"
           THEN Reject(title)
           ELSE StartWorker(chain)

\* The user dismisses the warning box; start_processing returns.
DismissBox ==
    /\ ui_message # "none"
    /\ ui_message' = "none"
    /\ UNCHANGED << pc, env, filters, cap, out, total_frames, matrices, cap_pos,
                    frame, filtered_frame, frame_num, written, sink_frames,
                    progress_calls, exc, outcome, controls, enable_pos,
                    input_path, output_path, menus, others >>

\* The user types into the input entry, or picks a file with its Browse
\* button: browse_input takes an existing file from askopenfilename.
SetInputPath ==
    /\ ui_message = "none"
    /\ \E path \in InputPaths :
          /\ path # input_path
          /\ \/ controls[InputEntry] = "normal"
             \/ controls[InputBrowse] = "normal" /\ path # "" /\ isfile(path)
          /\ input_path' = path
    /\ UNCHANGED << pc, env, filters, cap, out, total_frames, matrices, cap_pos,
                    frame, filtered_frame, frame_num, written, sink_frames,
                    progress_calls, exc, outcome, controls, enable_pos,
                    ui_message, output_path, menus, others >>

\* The user types into the output entry, or names a file with its Browse
\* button: browse_output takes a non-empty name from asksaveasfilename.
SetOutputPath ==
    /\ ui_message = "none"
    /\ \E path \in OutputPaths :
          /\ path # output_path
          /\ \/ controls[OutputEntry] = "normal"
             \/ controls[OutputBrowse] = "normal" /\ path # <<>>
          /\ output_path' = path
    /\ UNCHANGED << pc, env, filters, cap, out, total_frames, matrices, cap_pos,
                    frame, filtered_frame, frame_num, written, sink_frames,
                    progress_calls, exc, outcome, controls, enable_pos,
                    ui_message, input_path, menus, others >>

\* The user changes the menus that are not disabled.
SelectFilters ==
    /\ ui_message = "none"
    /\ \E choice \in MenuChoices :
          /\ choice # menus
          /\ \A k \in 1..3 :
                choice[k] # menus[k] => controls[FirstMenu + k - 1] = "normal"
          /\ menus' = choice
    /\ UNCHANGED << pc, env, filters, cap, out, total_frames, matrices, cap_pos,
                    frame, filtered_frame, frame_num, written, sink_frames,
                    progress_calls, exc, outcome, controls, enable_pos,
                    ui_message, input_path, output_path, others >>

\* A thread of others runs process_video beside the one followed.  Of its
\* steps only those of enable_ui touch what the application shares: others
\* counts the threads by the number of controls their enable_ui call has
\* configured, 0 for a thread that is not inside enable_ui.  A thread that
\* has configured them all makes the label call and leaves enable_ui.
OtherEnables ==
    /\ \E c \in 0..NumControls :
          /\ others[c] > 0
          /\ controls' = IF c < NumControls
                          THEN [controls EXCEPT ![c + 1] = "normal"]
                          ELSE controls
          /\ others' = [d \in 0..NumControls |->
                           others[d] - (IF d = c THEN 1 ELSE 0)
                                     + (IF d = (c + 1) % (NumControls + 1)
                                        THEN 1 ELSE 0)]
    /\ UNCHANGED << pc, env, filters, cap, out, total_frames, matrices, cap_pos,
                    frame, filtered_frame, frame_num, written, sink_frames,
                    progress_calls, exc, outcome, enable_pos, ui_message,
                    input_path, output_path, menus >>

\* A widget call raises in the enable_ui of a thread of others: the thread
\* leaves enable_ui for the handler of its process_video.
OtherRaises ==
    /\ \E c \in 1..NumControls :
          /\ others[c] > 0
          /\ others' = [others EXCEPT ![c] = @ - 1, ![0] = @ + 1]
    /\ UNCHANGED << pc, env, filters, cap, out, total_frames, matrices, cap_pos,
                    frame, filtered_frame, frame_num, written, sink_frames,
                    progress_calls, exc, outcome, controls, enable_pos,
                    ui_message, input_path, output_path, menus >>

\* A thread of others returns from process_video, after any of its reports.
OtherReturns ==
    /\ others[0] > 0
    /\ others' = [others EXCEPT ![0] = @ - 1]
    /\ UNCHANGED << pc, env, filters, cap, out, total_frames, matrices, cap_pos,
                    frame, filtered_frame, frame_num, written, sink_frames,
                    progress_calls, exc, outcome, controls, enable_pos,
                    ui_message, input_path, output_path, menus >>

NextApp ==
    \/ start_processing
    \/ DismissBox
    \/ SetInputPath
    \/ SetOutputPath
    \/ SelectFilters
    \/ OtherEnables
    \/ OtherRaises
    \/ OtherReturns
    \/ OpenSource
    \/ CreateSink
    \/ ResolveFilters
    \/ ReadFrame
    \/ ReadRaises
    \/ ApplyFilters
    \/ ApplyRaises
    \/ WriteFrame
    \/ WriteRaises
    \/ ReportProgress
    \/ Finalize
    \/ enable_ui
    \/ EnableRaises
    \/ ShowSuccess
    \/ Except

SpecApp == Init /\ [][NextApp]_vars

TypeOK ==
    /\ pc \in {"engine", "idle", "open_source", "create_sink", "resolve",
               "release_unknown", "read", "transform", "write", "progress",
               "loop_enable", "finalize", "final_enable", "success", "except",
               "done"}
    /\ cap \in {"none", "unopened", "open", "released"}
    /\ out \in {"none", "unopened", "open", "released"}
    /\ frame_num \in 0..MaxFrames
    /\ cap_pos \in 0..MaxFrames
    /\ controls \in [1..NumControls -> {"normal", "disabled"}]
    /\ enable_pos \in 0..NumControls
    /\ extra \in 0..MaxExtraWorkers
    /\ outcome \in {"none", "success", "cannot_open", "unknown_filter", "exception"}
\* ------------------------------------------------------------------ claims
\* if len(filters) > 3 (the only chain-length limit in the source)
MaxChain == 3

Opened(h) == h \in {"open", "released"}
Failures == {"cannot_open", "unknown_filter", "exception"}
FrameFaults == {"read", "transform", "write"}
AllKnown(chain) == \A i \in 1..Len(chain) : MatrixGet(chain[i]) # None
ReadFrames == SubSeq(env.frames, 1, cap_pos)
Last(s) == s[Len(s)]

\* A job as the caller is meant to pass it: a chain of one to three catalog
\* names.
ValidChain(chain) == Len(chain) \in 1..MaxChain /\ AllKnown(chain)
\* Both paths are usable: the source opens and the sink can be created.
UsablePaths == env.openable /\ env.sink_creatable
Started == pc # "idle"

\* C1: the values passed to progress_callback are non-decreasing and each
\* lies in [0,100], whatever frame count the source reported.
C1_ProgressMonotoneBounded ==
    (Started /\ UsablePaths /\ ValidChain(filters)) =>
        \A i \in 1..Len(progress_calls) :
            /\ InRange(progress_calls[i])
            /\ i > 1 => Leq(progress_calls[i - 1], progress_calls[i])

\* C2: a job rejected for an unknown filter name has opened neither the
\* source nor the sink (the output file is neither created nor truncated) and
\* has read and written no frame.
C2_UnknownFilterNoIO ==
    (UsablePaths /\ outcome = "unknown_filter") =>
        /\ ~Opened(cap)
        /\ ~Opened(out)
        /\ cap_pos = 0
        /\ written = <<>>

\* C3: with a reported frame count of zero the progress computation never
\* divides by zero, and a job that no call into the source, the sink or the
\* callback disturbs ends in success.
C3_ZeroTotalNoDivision ==
    (Started /\ UsablePaths /\ ValidChain(filters) /\ env.frame_count = 0) =>
        /\ exc # "ZeroDivisionError"
        /\ (pc = "done" /\ exc \notin (FrameFaults \cup {"callback"}))
           => outcome = "success"

\* C4: in every terminal state reached through failure no source or sink is
\* left open.
C4_FailureReleasesResources ==
    (pc = "done" /\ ValidChain(filters) /\ outcome \in Failures) =>
        (cap # "open" /\ out # "open")

\* C5: if the sink cannot be created the job reads no frame, never reports
\* success, and ends with a failure report.
C5_SinkFailureAborts ==
    (Started /\ env.openable /\ ~env.sink_creatable /\ ValidChain(filters)) =>
        /\ cap_pos = 0
        /\ outcome # "success"
        /\ pc = "done" => outcome \in Failures

\* C6: a job in which the progress callback raised still writes every frame,
\* releases its resources and reports success.
C6_CallbackFailureHarmless ==
    (pc = "done" /\ UsablePaths /\ ValidChain(filters) /\ exc = "callback") =>
        /\ outcome = "success"
        /\ Len(written) = Len(env.frames)
        /\ cap # "open"
        /\ out # "open"

\* C7: a successful job's last progress value is exactly 100; a source that
\* opens and delivers 0 frames never divides by zero and, unless a call into
\* the source or the callback raises, succeeds with nothing written and 100
\* as its only progress value.
C7_FinalProgressHundred ==
    /\ outcome = "success" =>
          (progress_calls # <<>> /\ IsHundred(Last(progress_calls)))
    /\ (Started /\ env.frames = <<>>) => exc # "ZeroDivisionError"
    /\ (pc = "done" /\ env.openable /\ env.frames = <<>> /\ AllKnown(filters)
          /\ exc = "none")
       => (outcome = "success" /\ written = <<>> /\ progress_calls = <<Hundred>>)

C7_Witness ==
    /\ pc = "done"
    /\ outcome = "success"
    /\ env.frames = <<>>
    /\ env.frame_count = 0
    /\ written = <<>>
    /\ progress_calls = <<Hundred>>

\* C8: the frames written are, in order, the transforms of a prefix of the
\* frames read, at most one frame behind; on success as many frames were
\* written as were read, and an opened sink holds exactly the written frames.
C8_WriteOrder ==
    /\ Len(written) <= cap_pos
    /\ cap_pos <= Len(written) + 1
    /\ \A i \in 1..Len(written) : written[i] \in ApplyChain(ReadFrames[i], matrices)
    /\ outcome = "success" =>
          (Len(written) = cap_pos /\ cap_pos = Len(env.frames))
    /\ Opened(out) => sink_frames = written

C8_Witness ==
    /\ outcome = "success"
    /\ filters = <<"Protanopia">>
    /\ Len(env.frames) = 10
    /\ Len(sink_frames) = 10
    /\ written[1] # written[2]

\* C9: a job whose chain is empty or longer than three entries opens no
\* source and no sink and reads and writes no frame.
C9_BadChainRejected ==
    (Started /\ UsablePaths /\ (Len(filters) = 0 \/ Len(filters) > MaxChain)) =>
        /\ ~Opened(cap)
        /\ ~Opened(out)
        /\ cap_pos = 0
        /\ written = <<>>

\* C10: once an exception is raised no further frame is read or written and
\* nothing already written is taken back, success is not reported, and a job
\* that ends after a read, transform or write failure has reported a failure.
C10_FrameFailureFatal ==
    [][ /\ exc # "none" =>
              /\ cap_pos' = cap_pos
              /\ written' = written
              /\ sink_frames' = sink_frames
              /\ outcome' # "success"
              /\ exc' = exc
        /\ (pc' = "done" /\ exc' \in FrameFaults) => outcome' = "exception"
      ]_vars

C10_Witness ==
    /\ pc = "done"
    /\ exc = "write"
    /\ outcome = "exception"
    /\ Len(written) >= 1
    /\ cap_pos < Len(env.frames)
    /\ sink_frames = written
\* The composite of a two-entry chain: the product m2 . m1, in millionths.
Composite(m1, m2) ==
    [i \in 1..3 |-> [j \in 1..3 |->
        m2[i][1] * m1[1][j] + m2[i][2] * m1[2][j] + m2[i][3] * m1[3][j]]]
\* The frame a single application of the composite gives, clipped and
\* truncated once; a whole value may land one lower, as in ChannelOutcomes.
CompositeOutcomes(f, m1, m2) ==
    LET rgb == BGR2RGB(f)
        Ch(i) == LET s == Dot(Composite(m1, m2)[i], rgb)
                     k == IF s > ClipHi * Scale * Scale THEN ClipHi
                          ELSE s \div (Scale * Scale)
                 IN  IF s % (Scale * Scale) = 0 /\ k > 0 THEN {k - 1, k} ELSE {k}
    IN  { RGB2BGR(<<r, g, b>>) : r \in Ch(1), g \in Ch(2), b \in Ch(3) }

\* Sequential application written out for chains of one, two and three
\* matrices.
Nested(f, ms) ==
    IF Len(ms) = 1 THEN apply_colorblind_filter(f, ms[1])
    ELSE IF Len(ms) = 2
    THEN UNION { apply_colorblind_filter(g, ms[2]) :
                    g \in apply_colorblind_filter(f, ms[1]) }
    ELSE UNION { apply_colorblind_filter(h, ms[3]) :
                    h \in UNION { apply_colorblind_filter(g, ms[2]) :
                                     g \in apply_colorblind_filter(f, ms[1]) } }

\* C11: for a chain of one to three matrices every frame process_video has
\* written is a value of apply(...apply(apply(F, M1), M2)..., Mk) for the
\* frame F read at the same position, the matrices taken in chain order.
C11_SequentialChain ==
    Len(matrices) \in 1..MaxChain =>
        \A i \in 1..Len(written) : written[i] \in Nested(ReadFrames[i], matrices)

\* A written frame that the composite matrix cannot give and that the chain
\* in swapped order cannot give either.
C11_Witness ==
    /\ filters = <<"Deuteranopia", "Tritanopia">>
    /\ Len(written) >= 1
    /\ written[1] \in Nested(env.frames[1], matrices)
    /\ written[1] \notin CompositeOutcomes(env.frames[1], matrices[1], matrices[2])
    /\ written[1] \notin Nested(env.frames[1], <<matrices[2], matrices[1]>>)

\* C12: after every application of a catalog matrix each channel of the
\* pixel lies in 0..255.
C12_ChannelsInRange ==
    pc = "engine" => \A c \in 1..3 : filtered_frame[c] \in ClipLo..ClipHi

\* The boundary input (255,255,255) after a filter, on the value where the
\* float sum fell just below 255.
C12_Witness ==
    /\ pc = "engine"
    /\ frame = <<255, 255, 255>>
    /\ filters = <<"Protanopia">>
    /\ filtered_frame = <<255, 254, 254>>

\* C13 as stated: a frame whose native-order pixel is (255,0,0) comes out of
\* Protanopia as (144,142,0), in either channel order.
C13_NativeRedGives144 ==
    (pc = "engine" /\ frame = <<255, 0, 0>> /\ filters = <<"Protanopia">>) =>
        filtered_frame \in { <<144, 142, 0>>, <<0, 142, 144>> }

\* C13 amended: native order is (b, g, r), so the native pixel (255,0,0) is
\* RGB (0,0,255) and comes out as native (193,0,0); the pixel whose RGB value
\* is (255,0,0), native (0,0,255), comes out as RGB (144,142,0), native
\* (0,142,144).
C13_NativeBlueGives193 ==
    /\ (pc = "engine" /\ frame = <<255, 0, 0>> /\ filters = <<"Protanopia">>)
          => filtered_frame = <<193, 0, 0>>
    /\ (pc = "engine" /\ frame = <<0, 0, 255>> /\ filters = <<"Protanopia">>)
          => filtered_frame = <<0, 142, 144>>

C13_Witness ==
    /\ pc = "engine"
    /\ frame = <<255, 0, 0>>
    /\ filters = <<"Protanopia">>
    /\ filtered_frame = <<193, 0, 0>>
\* C14: success is reported only at the end of the job, after cap.read()
\* returned no frame (every frame of the source was read), with the source
\* released, the sink not open, no exception raised and 100 as the last
\* progress value; and a report, once made, is never replaced by another.
C14_SuccessLast ==
    [][ /\ outcome' = "success" =>
              /\ pc' = "done"
              /\ cap_pos' = Len(env'.frames)
              /\ Len(written') = Len(env'.frames)
              /\ cap' = "released"
              /\ out' # "open"
              /\ exc' = "none"
              /\ progress_calls' # <<>>
              /\ IsHundred(Last(progress_calls'))
        /\ outcome # "none" => outcome' = outcome
      ]_vars

C14_Witness ==
    /\ outcome = "success"
    /\ pc = "done"
    /\ cap = "released"
    /\ out = "released"
    /\ Len(written) >= 1
    /\ IsHundred(Last(progress_calls))

\* C17: a step of the loop passes a value to progress_callback only when the
\* frame counter it has just incremented is a multiple of 10 or equals
\* total_frames, and the value is that counter's percentage; so while the
\* source is open at most frame_num \div 10 + 1 values have been passed.
C17_BatchedNotifications ==
    [][ /\ (pc = "progress" /\ progress_calls' # progress_calls) =>
              /\ frame_num' = frame_num + 1
              /\ (frame_num' % 10 = 0 \/ frame_num' = total_frames)
              /\ progress_calls' =
                    Append(progress_calls, Frac(frame_num' * 100, total_frames))
        /\ cap' = "open" =>
              Len(progress_calls') <= (frame_num' \div 10) + 1
      ]_vars

\* Ten frames processed and two notifications: one at total_frames, one at 10.
C17_Witness ==
    /\ cap = "open"
    /\ frame_num = 10
    /\ Len(progress_calls) = 2
    /\ total_frames \notin {0, 10}

\* ------------------------------------------------ claims on the application
\* The thread followed was given a source that opens, a sink that can be
\* created and a frame count that is the number of frames, and nothing raised.
HonestJob ==
    /\ env.openable
    /\ env.sink_creatable
    /\ env.frame_count = Len(env.frames)
    /\ exc = "none"

\* C15: while a job started by start_processing is running (its worker has
\* not released the source and the sink) every control stays disabled and no
\* other process_video thread is alive.
C15_DisabledWhileRunning ==
    (WorkerAlive /\ cap = "open" /\ HonestJob) =>
        (controls = AllControls("disabled") /\ extra = 0)

\* C16: a job started by start_processing that has come to its end, with
\* success or with a failure, has the controls enabled again.
C16_EnabledAfterJob ==
    (pc = "done" /\ extra = 0) => controls = AllControls("normal")

\* The checks of start_processing as the claim lists them, on what the
\* entries and the menus hold.
ChecksPass(in_file, out_file, selected) ==
    LET chain == SelectSeq(selected, LAMBDA f : f # "None")
    IN  /\ in_file # ""
        /\ in_file \in ExistingFiles
        /\ out_file # <<>>
        /\ Len(out_file) >= 4
        /\ Lower(SubSeq(out_file, Len(out_file) - 3, Len(out_file)))
              = << ".", "m", "p", "4" >>
        /\ Len(chain) >= 1
        /\ Len(chain) <= 3

\* C18: start_processing starts a worker and disables the controls only when
\* every check passes on what the entries and menus hold, and nothing else
\* disables a control; a call that shows a warning box changes nothing else:
\* the controls, the worker, the source and the sink are as they were and no
\* thread is started.
C18_StartOnlyWhenValid ==
    [][ /\ (pc' = "open_source" /\ pc # "open_source") =>
               /\ controls[ApplyButton] = "normal"
               /\ controls' = AllControls("disabled")
               /\ ChecksPass(input_path, output_path, menus)
               /\ filters' = SelectSeq(menus, LAMBDA f : f # "None")
        /\ extra' > extra =>
               /\ controls[ApplyButton] = "normal"
               /\ controls' = AllControls("disabled")
               /\ ChecksPass(input_path, output_path, menus)
        /\ (\E k \in 1..NumControls :
               controls[k] = "normal" /\ controls'[k] = "disabled") =>
               \/ pc' = "open_source" /\ pc \in {"idle", "done"}
               \/ extra' = extra + 1
        /\ (ui_message = "none" /\ ui_message' # "none") =>
               /\ ~ChecksPass(input_path, output_path, menus)
               /\ UNCHANGED << pc, env, filters, cap, out, total_frames,
                               matrices, cap_pos, frame, filtered_frame,
                               frame_num, written, sink_frames, progress_calls,
                               exc, outcome, controls, enable_pos, input_path,
                               output_path, menus, others >>
      ]_vars

\* A job started with an upper-case extension and a gap in the menus.
C18_Witness ==
    /\ pc = "open_source"
    /\ controls = AllControls("disabled")
    /\ input_path = "video.mp4"
    /\ output_path = << "o", ".", "M", "P", "4" >>
    /\ menus = << "Deuteranopia", "None", "Tritanopia" >>
    /\ filters = << "Deuteranopia", "Tritanopia" >>

====
